---- MODULE Spec2Model ----
(***************************************************************************)
(* Model of openedx/core/lib/edx_api_utils.py: get_edx_api_data and its    *)
(* helper _traverse_pagination.  One call is a sequence of steps (enabled  *)
(* check, cache lookup, client initialization, first request, one step per *)
(* further page, cache store, return); the cache, the auth provider, the   *)
(* token builder and the HTTP API are the environment, and every answer    *)
(* they can give is a nondeterministic choice.                             *)
(*                                                                         *)
(* Python values are tagged records.  A list is List(items).  A mapping    *)
(* returned by the API is Dict(results, next, extra): `results` is <<>>    *)
(* when the key is absent and <<s>> when it holds the sequence s, `next`   *)
(* is "absent", "null" or "link", and `extra` counts the other keys.       *)
(***************************************************************************)
EXTENDS Integers, Sequences, FiniteSets, TLC

\* ---- bounds ----
MaxCalls == 2        \* Spec: calls made in one behaviour
MaxPages == 2        \* Spec: endpoint requests one call may issue
DeepCalls == 1       \* SpecDeep: calls made in one behaviour
DeepPages == 3       \* SpecDeep: endpoint requests one call may issue
ConcCalls == 2       \* SpecConc: calls made in one behaviour
ConcPages == 2       \* SpecConc: endpoint requests one call may issue

\* ---- domains ----
Procs == {"c1", "c2"}
SeqCallers == {"c1"}
None == "None"

List(s) == [t |-> "list", items |-> s, results |-> <<>>, next |-> "absent", extra |-> 0]
Dict(r, n, e) == [t |-> "dict", items |-> <<>>, results |-> r, next |-> n, extra |-> e]
EmptyList == List(<<>>)
EmptyDict == Dict(<<>>, "absent", 0)
RaiseResp == [t |-> "raise", items |-> <<>>, results |-> <<>>, next |-> "absent", extra |-> 0]

\* Python truthiness of a list or a mapping: non-empty.
Truthy(v) ==
    IF v.t = "list" THEN v.items # <<>>
    ELSE v.results # <<>> \/ v.next # "absent" \/ v.extra > 0

\* What the endpoint can answer: a page (its `results` absent, empty, of one
\* or of two items; its `next` null or a link), an empty mapping, a plain
\* resource object, or an exception.
PageResults == {<<>>, << <<>> >>, << <<"a">> >>, << <<"b", "a">> >>}
Responses ==
    {Dict(r, n, 0) : r \in PageResults, n \in {"null", "link"}}
    \cup {EmptyDict, Dict(<<>>, "absent", 1), RaiseResp}

\* Query-string arguments: None, {}, {q: 1}, {page: 5}.  A key with value 0
\* is absent.
QsNone == [isNone |-> TRUE, page |-> 0, q |-> 0]
QsEmpty == [isNone |-> FALSE, page |-> 0, q |-> 0]
Querystrings == {QsNone, QsEmpty, [QsEmpty EXCEPT !.q = 1], [QsEmpty EXCEPT !.page = 5]}
QsAnyMapping(m) == ~m.isNone
QsTruthy(m) == ~m.isNone /\ (m.page # 0 \/ m.q # 0)

ResourceIds == {None, "7"}
CacheKeyArgs == {<<>>, <<"k">>}      \* <<>>: no cache key (None or "")
CacheTtls == {300}

Args ==
    [enabled : BOOLEAN, api : BOOLEAN, resource_id : ResourceIds,
     querystring : Querystrings, cache_key : CacheKeyArgs, many : BOOLEAN,
     cache_ttl : CacheTtls]

\* The calls of two concurrent callers: enabled, client supplied, the same
\* cache key, no query string.
ConcArgs ==
    {a \in Args : /\ a.enabled /\ a.api /\ a.many
                  /\ a.cache_key # <<>> /\ a.querystring = QsNone
                  /\ a.resource_id = None}

\* '{}.{}'.format(cache_key, resource_id) if resource_id is not None else cache_key
DerivedKeyNoId(ck, rid) == ck
DerivedKey(ck, rid) == IF rid # None THEN ck \o <<".", rid>> ELSE ck

\* Every string the cache can be asked about.
StoreKeys ==
    {ck \o s : ck \in CacheKeyArgs,
               s \in {<<>>} \cup {<<".", rid>> : rid \in ResourceIds \ {None}}}

\* `if not api_config.enabled:` of line 43
ConfigNeverDisabled(a) == FALSE
ConfigDisabled(a) == ~a.enabled

\* `if cache_key:` of lines 47 and 88
KeyAlwaysGiven(ck) == TRUE
KeyGiven(ck) == ck # <<>>

\* `page = 1` of line 101
FirstPage == 1

\* `page += 1` of line 104
SamePage(pg) == pg
NextPageNo(pg) == pg + 1

\* The key the call's arguments name, spelled out.
KeyText(a) ==
    a.cache_key \o (IF a.resource_id # None THEN <<".", a.resource_id>> ELSE <<>>)

\* `if resource_id is not None:` of line 80
SingleUnlessMany(a) == ~a.many
SingleResource(a) == a.resource_id # None

\* `if not api:` of line 55, negated
ClientNeverSupplied(a) == FALSE
ClientSupplied(a) == a.api

InitOutcomes == {"ok", "no_client_record", "lookup_error", "token_error", "client_error"}

VARIABLES
    cache,        \* the shared cache: key -> <<>> or <<[val, ttl]>>
    calls,        \* calls started so far
    pc,           \* position of each caller
    args,         \* arguments of the call in progress
    no_data,      \* the object bound to no_data
    cache_key,    \* the local cache_key (rebound to the derived key)
    cached,       \* the local cached: <<>> for None, <<v>> otherwise
    querystring,  \* the mapping the local querystring is bound to
    callerQs,     \* the caller's query-string object
    results,      \* the object bound to results
    resIsNoData,  \* results and no_data are the same object
    page,         \* _traverse_pagination's page counter
    ret,          \* the value returned
    requests,     \* log: the query string of every endpoint request
    responses,    \* log: the answer to every endpoint request
    cacheGets,    \* log: number of cache.get calls
    cacheWrites,  \* log: every cache.set call
    initLog,      \* log: what client initialization did
    outcome,      \* log: the way the call ended
    lastFetch,    \* log: per key, what the latest call that fetched and stored it returned
    prior         \* log: lastFetch under the call's derived key when the call started

vars == <<cache, calls, pc, args, no_data, cache_key, cached, querystring, callerQs,
          results, resIsNoData, page, ret, requests, responses, cacheGets,
          cacheWrites, initLog, outcome, lastFetch, prior>>

NoArgs ==
    [enabled |-> FALSE, api |-> FALSE, resource_id |-> None, querystring |-> QsNone,
     cache_key |-> <<>>, many |-> TRUE, cache_ttl |-> 300]
NoInit == [lookups |-> 0, tokens |-> 0, clients |-> 0, outcome |-> "none"]

Init ==
    /\ cache = [k \in StoreKeys |-> <<>>]
    /\ calls = 0
    /\ pc = [p \in Procs |-> "idle"]
    /\ args = [p \in Procs |-> NoArgs]
    /\ no_data = [p \in Procs |-> EmptyList]
    /\ cache_key = [p \in Procs |-> <<>>]
    /\ cached = [p \in Procs |-> <<>>]
    /\ querystring = [p \in Procs |-> QsNone]
    /\ callerQs = [p \in Procs |-> QsNone]
    /\ results = [p \in Procs |-> EmptyList]
    /\ resIsNoData = [p \in Procs |-> FALSE]
    /\ page = [p \in Procs |-> 0]
    /\ ret = [p \in Procs |-> EmptyList]
    /\ requests = [p \in Procs |-> <<>>]
    /\ responses = [p \in Procs |-> <<>>]
    /\ cacheGets = [p \in Procs |-> 0]
    /\ cacheWrites = [p \in Procs |-> <<>>]
    /\ initLog = [p \in Procs |-> NoInit]
    /\ outcome = [p \in Procs |-> "none"]
    /\ lastFetch = [k \in StoreKeys |-> <<>>]
    /\ prior = [p \in Procs |-> <<>>]

\* `return v`
Finish(p, how, v) ==
    /\ ret' = [ret EXCEPT ![p] = v]
    /\ outcome' = [outcome EXCEPT ![p] = how]
    /\ pc' = [pc EXCEPT ![p] = "done"]

\* An exception leaves get_edx_api_data.
Propagate(p, how) ==
    /\ outcome' = [outcome EXCEPT ![p] = how]
    /\ pc' = [pc EXCEPT ![p] = "raised"]
    /\ UNCHANGED ret

Goto(p, l) ==
    /\ pc' = [pc EXCEPT ![p] = l]
    /\ UNCHANGED <<ret, outcome>>

\* A caller enters get_edx_api_data: the arguments are bound and line 41 sets
\* no_data.  maxCalls bounds the calls of a behaviour.
Call(p, a, maxCalls) ==
    /\ pc[p] = "idle"
    /\ calls < maxCalls
    /\ calls' = calls + 1
    /\ args' = [args EXCEPT ![p] = a]
    /\ no_data' = [no_data EXCEPT ![p] = IF a.many THEN EmptyList ELSE EmptyDict]
    /\ cache_key' = [cache_key EXCEPT ![p] = a.cache_key]
    /\ callerQs' = [callerQs EXCEPT ![p] = a.querystring]
    /\ querystring' = [querystring EXCEPT ![p] = a.querystring]
    /\ prior' = [prior EXCEPT ![p] =
                    IF a.cache_key # <<>> THEN lastFetch[KeyText(a)] ELSE <<>>]
    /\ Goto(p, "check_enabled")
    /\ UNCHANGED <<cache, cached, results, resIsNoData, page, requests, responses,
                   cacheGets, cacheWrites, initLog, lastFetch>>

\* Lines 43-45, and the test of line 47.
CheckEnabled(p) ==
    /\ pc[p] = "check_enabled"
    /\ IF ConfigDisabled(args[p])
       THEN Finish(p, "disabled", no_data[p])
       ELSE Goto(p, IF KeyGiven(cache_key[p]) THEN "cache_get" ELSE "init")
    /\ UNCHANGED <<cache, calls, args, no_data, cache_key, cached, querystring, callerQs,
                   results, resIsNoData, page, requests, responses, cacheGets,
                   cacheWrites, initLog, lastFetch, prior>>

\* cache.get(key): None when the key is absent, the stored value otherwise.
CacheValue(c, k) == IF c[k] = <<>> THEN <<>> ELSE <<c[k][1].val>>

\* `if cached:` of line 51.
CachedHit(c) == c # <<>> /\ Truthy(c[1])

\* Lines 48-52.  ok = FALSE: cache.get raises, and nothing catches it.
CacheGet(p, ok) ==
    /\ pc[p] = "cache_get"
    /\ LET key == DerivedKey(cache_key[p], args[p].resource_id)
           c == CacheValue(cache, key)
       IN /\ cache_key' = [cache_key EXCEPT ![p] = key]
          /\ cacheGets' = [cacheGets EXCEPT ![p] = @ + 1]
          /\ IF ~ok
             THEN /\ Propagate(p, "cache_get_error")
                  /\ UNCHANGED cached
             ELSE /\ cached' = [cached EXCEPT ![p] = c]
                  /\ IF CachedHit(c)
                     THEN Finish(p, "hit", c[1])
                     ELSE Goto(p, "init")
    /\ UNCHANGED <<cache, calls, args, no_data, querystring, callerQs, results,
                   resIsNoData, page, requests, responses, cacheWrites, initLog,
                   lastFetch, prior>>

\* What lines 57-70 do for each way they can end.
InitSteps(o) ==
    [lookups |-> 1,
     tokens |-> IF o \in {"ok", "token_error", "client_error"} THEN 1 ELSE 0,
     clients |-> IF o \in {"ok", "client_error"} THEN 1 ELSE 0,
     outcome |-> o]

\* The exceptions the handler of lines 71-73 catches: all of them, the
\* ImproperlyConfigured raised for a missing client record included.
InitFailedButMissingRecord(o) == o \notin {"ok", "no_client_record"}
InitFailed(o) == o # "ok"

\* Lines 54-73.
InitClient(p, o) ==
    /\ pc[p] = "init"
    /\ IF ClientSupplied(args[p])
       THEN /\ o = "ok"
            /\ Goto(p, "request")
            /\ UNCHANGED initLog
       ELSE /\ initLog' = [initLog EXCEPT ![p] = InitSteps(o)]
            /\ IF InitFailed(o)
               THEN Finish(p, "init_failed", no_data[p])
               ELSE Goto(p, "request")
    /\ UNCHANGED <<cache, calls, args, no_data, cache_key, cached, querystring, callerQs,
                   results, resIsNoData, page, requests, responses, cacheGets,
                   cacheWrites, lastFetch, prior>>

\* response.get('results', no_data)
GetResults(r, nd) == IF r.results # <<>> THEN List(r.results[1]) ELSE nd

\* response.get('next'), as the loop test of line 103 reads it
HasNext(r) == r.next = "link"

\* `results += x` of line 107: a list is extended in place (by the items of a
\* list, by the keys of a mapping, of which the empty no_data has none); a
\* mapping on the left raises TypeError.
IAddRaises(res) == res.t = "dict"
IAddAssigns(res, x) == List(x.items)
IAdd(res, x) == List(res.items \o x.items)

\* The handler of lines 84-86.
RequestFailedFallsThrough(p) == Goto(p, "store")
RequestFailed(p) == Finish(p, "request_failed", no_data[p])

\* Lines 76-83 up to the first test of the pagination loop (lines 99-103).
FirstRequest(p, r) ==
    /\ pc[p] = "request"
    /\ LET qs == IF QsTruthy(querystring[p]) THEN querystring[p] ELSE QsEmpty
       IN /\ querystring' = [querystring EXCEPT ![p] = qs]
          /\ requests' = [requests EXCEPT ![p] = Append(@, qs)]
    /\ responses' = [responses EXCEPT ![p] = Append(@, r)]
    /\ IF r.t = "raise"
       THEN /\ RequestFailed(p)
            /\ UNCHANGED <<results, resIsNoData, page>>
       ELSE IF SingleResource(args[p])
       THEN /\ results' = [results EXCEPT ![p] = r]
            /\ Goto(p, "store")
            /\ UNCHANGED <<resIsNoData, page>>
       ELSE /\ results' = [results EXCEPT ![p] = GetResults(r, no_data[p])]
            /\ resIsNoData' = [resIsNoData EXCEPT ![p] = (r.results = <<>>)]
            /\ page' = [page EXCEPT ![p] = FirstPage]
            /\ Goto(p, IF HasNext(r) THEN "paginate" ELSE "store")
    /\ UNCHANGED <<cache, calls, args, no_data, cache_key, cached, callerQs, cacheGets,
                   cacheWrites, initLog, lastFetch, prior>>

\* One iteration of the loop of lines 103-108.  maxPages bounds the requests
\* the model follows; the loop itself has no bound.
Paginate(p, r, maxPages) ==
    /\ pc[p] = "paginate"
    /\ Len(requests[p]) < maxPages
    /\ LET n == NextPageNo(page[p])
           qs == [querystring[p] EXCEPT !.page = n]
           sum == IAdd(results[p], GetResults(r, no_data[p]))
       IN /\ page' = [page EXCEPT ![p] = n]
          /\ querystring' = [querystring EXCEPT ![p] = qs]
          /\ callerQs' = [callerQs EXCEPT ![p] = IF QsTruthy(args[p].querystring) THEN qs ELSE @]
          /\ requests' = [requests EXCEPT ![p] = Append(@, qs)]
          /\ responses' = [responses EXCEPT ![p] = Append(@, r)]
          /\ IF r.t = "raise" \/ IAddRaises(results[p])
             THEN /\ RequestFailed(p)
                  /\ UNCHANGED <<results, no_data>>
             ELSE /\ results' = [results EXCEPT ![p] = sum]
                  /\ no_data' = [no_data EXCEPT ![p] = IF resIsNoData[p] THEN sum ELSE @]
                  /\ Goto(p, IF HasNext(r) THEN "paginate" ELSE "store")
    /\ UNCHANGED <<cache, calls, args, cache_key, cached, resIsNoData, cacheGets,
                   cacheWrites, initLog, lastFetch, prior>>

\* cache.set(key, value, ttl): the entry is replaced whatever it held.
CacheAdd(c, k, v, ttl) == IF c[k] = <<>> THEN [c EXCEPT ![k] = <<[val |-> v, ttl |-> ttl]>>] ELSE c
CacheSet(c, k, v, ttl) == [c EXCEPT ![k] = <<[val |-> v, ttl |-> ttl]>>]

\* Lines 88-91.  ok = FALSE: cache.set raises, and nothing catches it.
Store(p, ok) ==
    /\ pc[p] = "store"
    /\ IF KeyGiven(cache_key[p])
       THEN IF ok
            THEN /\ cache' = CacheSet(cache, cache_key[p], results[p], args[p].cache_ttl)
                 /\ cacheWrites' = [cacheWrites EXCEPT ![p] =
                                 Append(@, <<cache_key[p], results[p], args[p].cache_ttl>>)]
                 /\ lastFetch' = [lastFetch EXCEPT ![cache_key[p]] = <<results[p]>>]
                 /\ Finish(p, "ok", results[p])
            ELSE /\ Propagate(p, "cache_set_error")
                 /\ UNCHANGED <<cache, cacheWrites, lastFetch>>
       ELSE /\ ok
            /\ Finish(p, "ok", results[p])
            /\ UNCHANGED <<cache, cacheWrites, lastFetch>>
    /\ UNCHANGED <<calls, args, no_data, cache_key, cached, querystring, callerQs, results,
                   resIsNoData, page, requests, responses, cacheGets, initLog, prior>>

\* The caller takes the result (or the exception); the frame is gone.
Return(p) ==
    /\ pc[p] \in {"done", "raised"}
    /\ pc' = [pc EXCEPT ![p] = "idle"]
    /\ args' = [args EXCEPT ![p] = NoArgs]
    /\ no_data' = [no_data EXCEPT ![p] = EmptyList]
    /\ cache_key' = [cache_key EXCEPT ![p] = <<>>]
    /\ cached' = [cached EXCEPT ![p] = <<>>]
    /\ querystring' = [querystring EXCEPT ![p] = QsNone]
    /\ callerQs' = [callerQs EXCEPT ![p] = QsNone]
    /\ results' = [results EXCEPT ![p] = EmptyList]
    /\ resIsNoData' = [resIsNoData EXCEPT ![p] = FALSE]
    /\ page' = [page EXCEPT ![p] = 0]
    /\ ret' = [ret EXCEPT ![p] = EmptyList]
    /\ requests' = [requests EXCEPT ![p] = <<>>]
    /\ responses' = [responses EXCEPT ![p] = <<>>]
    /\ cacheGets' = [cacheGets EXCEPT ![p] = 0]
    /\ cacheWrites' = [cacheWrites EXCEPT ![p] = <<>>]
    /\ initLog' = [initLog EXCEPT ![p] = NoInit]
    /\ outcome' = [outcome EXCEPT ![p] = "none"]
    /\ prior' = [prior EXCEPT ![p] = <<>>]
    /\ UNCHANGED <<cache, calls, lastFetch>>

\* The cache provider drops an entry whose TTL has run out.
Expire(k) ==
    /\ cache[k] # <<>>
    /\ \A p \in Procs : pc[p] = "idle"
    /\ cache' = [cache EXCEPT ![k] = <<>>]
    /\ lastFetch' = [lastFetch EXCEPT ![k] = <<>>]
    /\ UNCHANGED <<calls, pc, args, no_data, cache_key, cached, querystring, callerQs,
                   results, resIsNoData, page, ret, requests, responses, cacheGets,
                   cacheWrites, initLog, outcome, prior>>

\* One caller at a time (section 5 of the specification: single-threaded).
\* Spec follows several calls over a shared cache; SpecDeep follows fewer
\* calls through more pages.
Next ==
    \/ \E p \in SeqCallers, a \in Args : Call(p, a, MaxCalls)
    \/ \E p \in SeqCallers : CheckEnabled(p)
    \/ \E p \in SeqCallers, ok \in BOOLEAN : CacheGet(p, ok)
    \/ \E p \in SeqCallers, o \in InitOutcomes : InitClient(p, o)
    \/ \E p \in SeqCallers, r \in Responses : FirstRequest(p, r)
    \/ \E p \in SeqCallers, r \in Responses : Paginate(p, r, MaxPages)
    \/ \E p \in SeqCallers, ok \in BOOLEAN : Store(p, ok)
    \/ \E p \in SeqCallers : Return(p)
    \/ \E k \in StoreKeys : Expire(k)

Spec == Init /\ [][Next]_vars

NextDeep ==
    \/ \E p \in SeqCallers, a \in Args : Call(p, a, DeepCalls)
    \/ \E p \in SeqCallers : CheckEnabled(p)
    \/ \E p \in SeqCallers, ok \in BOOLEAN : CacheGet(p, ok)
    \/ \E p \in SeqCallers, o \in InitOutcomes : InitClient(p, o)
    \/ \E p \in SeqCallers, r \in Responses : FirstRequest(p, r)
    \/ \E p \in SeqCallers, r \in Responses : Paginate(p, r, DeepPages)
    \/ \E p \in SeqCallers, ok \in BOOLEAN : Store(p, ok)
    \/ \E p \in SeqCallers : Return(p)
    \/ \E k \in StoreKeys : Expire(k)

SpecDeep == Init /\ [][NextDeep]_vars

\* Two callers whose steps interleave: the cache is shared and nothing locks
\* it (section 5 of the specification).
NextConc ==
    \/ \E p \in Procs, a \in ConcArgs : Call(p, a, ConcCalls)
    \/ \E p \in Procs : CheckEnabled(p)
    \/ \E p \in Procs, ok \in BOOLEAN : CacheGet(p, ok)
    \/ \E p \in Procs, o \in InitOutcomes : InitClient(p, o)
    \/ \E p \in Procs, r \in Responses : FirstRequest(p, r)
    \/ \E p \in Procs, r \in Responses : Paginate(p, r, ConcPages)
    \/ \E p \in Procs, ok \in BOOLEAN : Store(p, ok)
    \/ \E p \in Procs : Return(p)
    \/ \E k \in StoreKeys : Expire(k)

SpecConc == Init /\ [][NextConc]_vars

(***************************************************************************)
(* Properties                                                              *)
(***************************************************************************)

\* The empty value of line 41, from the arguments.
Empty(p) == IF args[p].many THEN EmptyList ELSE EmptyDict

InitFailures == {"no_client_record", "lookup_error", "token_error", "client_error"}

RECURSIVE ConcatResults(_)
ConcatResults(log) ==
    IF log = <<>> THEN <<>>
    ELSE log[1].results[1] \o ConcatResults(Tail(log))

AllPagesCarryResults(log) ==
    \A i \in 1..Len(log) : log[i].t = "dict" /\ log[i].results # <<>>

\* C1: a call whose configuration is disabled returns the empty value ([] if
\* many, {} otherwise) whatever its other arguments are, and issues no endpoint
\* request, builds no client and neither reads nor writes the cache.
C1_DisabledReturnsEmpty ==
    \A p \in Procs :
        (pc[p] # "idle" /\ ~args[p].enabled) =>
            /\ pc[p] \in {"check_enabled", "done"}
            /\ pc[p] = "done" => ret[p] = Empty(p)
            /\ requests[p] = <<>>
            /\ initLog[p] = NoInit
            /\ cacheGets[p] = 0
            /\ cacheWrites[p] = <<>>

\* A disabled call with a cache key whose entry holds a truthy value, no
\* client supplied, many false: it has returned.
C1_Witness ==
    \E p \in Procs :
        /\ pc[p] = "done" /\ ~args[p].enabled /\ ~args[p].many /\ ~args[p].api
        /\ args[p].cache_key # <<>>
        /\ cache[KeyText(args[p])] # <<>>
        /\ Truthy(cache[KeyText(args[p])][1].val)
        /\ ret[p] = EmptyDict

\* C2: with the configuration enabled and a cache key given, when cache.get
\* finds a value under the derived key the call returns exactly that value and
\* issues no endpoint request, whatever the value is (empty ones included).
C2_CacheHitVerbatim ==
    \A p \in Procs :
        (args[p].enabled /\ cached[p] # <<>>) =>
            /\ requests[p] = <<>>
            /\ pc[p] = "done" => ret[p] = cached[p][1]

\* C3: after a call with a cache key missed the cache, fetched and stored, a
\* later call with the same key and resource id (entry not expired) returns
\* what the first call returned and issues no endpoint request, whatever the
\* API had answered.
C3_SecondCallServedFromCache ==
    \A p \in Procs :
        (pc[p] # "idle" /\ args[p].enabled /\ prior[p] # <<>>) =>
            /\ requests[p] = <<>>
            /\ pc[p] = "done" => ret[p] = prior[p][1]

\* C4: a collection fetch whose every answer is a page carrying `results`, no
\* request failing, returns the concatenation of the pages' results in page
\* order.
C4_ConcatenatesPages ==
    \A p \in Procs :
        (/\ pc[p] = "done"
         /\ args[p].resource_id = None
         /\ requests[p] # <<>>
         /\ AllPagesCarryResults(responses[p])) =>
            /\ outcome[p] = "ok"
            /\ ret[p] = List(ConcatResults(responses[p]))

\* A three-page collection fetch, every page with a non-empty `results`, the
\* first two different, has returned five items.
C4_Witness ==
    \E p \in Procs :
        /\ pc[p] = "done" /\ args[p].resource_id = None
        /\ Len(responses[p]) = 3
        /\ AllPagesCarryResults(responses[p])
        /\ \A i \in 1..3 : responses[p][i].results[1] # <<>>
        /\ responses[p][1].results[1] # responses[p][2].results[1]
        /\ Len(ret[p].items) = 5

\* C5 as stated: in a collection fetch the k-th endpoint request carries the
\* query parameter page = k, the first request page = 1.
C5_PageParamEqualsIndex ==
    \A p \in Procs :
        (pc[p] # "idle" /\ args[p].resource_id = None) =>
            \A k \in 1..Len(requests[p]) : requests[p][k].page = k

\* C5 amended: in a collection fetch the k-th endpoint request carries
\* page = k for k >= 2; the first request carries the caller's query
\* parameters as given (a page parameter only if the caller passed one).
C5_PageParamFromSecondRequest ==
    \A p \in Procs :
        (pc[p] # "idle" /\ args[p].resource_id = None) =>
            \A k \in 1..Len(requests[p]) :
                /\ requests[p][k].page = IF k = 1 THEN args[p].querystring.page ELSE k
                /\ requests[p][k].q = args[p].querystring.q

\* A collection fetch has returned after three requests.
C5_Witness ==
    \E p \in Procs :
        /\ pc[p] = "done" /\ outcome[p] = "ok" /\ args[p].resource_id = None
        /\ Len(requests[p]) = 3
        /\ requests[p][3].page = 3

\* C6: when building the client or an endpoint request (the first or a later
\* page) raised, the call returns exactly the empty value, never a partly
\* accumulated result.
C6_FailureReturnsEmpty ==
    \A p \in Procs :
        (/\ pc[p] = "done"
         /\ \/ initLog[p].outcome \in InitFailures
            \/ /\ responses[p] # <<>>
               /\ responses[p][Len(responses[p])].t = "raise") =>
            ret[p] = Empty(p)

\* C7: no call lets an exception reach its caller, whichever collaborator
\* failed.
C7_NeverRaises == \A p \in Procs : pc[p] # "raised"

\* C8: a call without a cache key performs no cache.get and no cache.set and
\* leaves the cache as it was, on every path.
C8_NoKeyNoCache ==
    [][\A p \in Procs :
          (pc[p] # "idle" /\ args[p].cache_key = <<>>) =>
              /\ cache' = cache
              /\ cacheGets'[p] = 0
              /\ cacheWrites'[p] = <<>>]_vars

\* A call without a cache key has fetched and returned a non-empty result
\* while the cache holds an entry.
C8_Witness ==
    \E p \in Procs :
        /\ pc[p] = "done" /\ outcome[p] = "ok" /\ args[p].cache_key = <<>>
        /\ Truthy(ret[p])
        /\ \E k \in StoreKeys : cache[k] # <<>>

\* C9: when a call with a cache key returns a fetched result, it has written
\* the cache exactly once, under '{cache_key}.{resource_id}' (or '{cache_key}'
\* without a resource id), with the configuration's TTL and the value it
\* returns, and the cache holds that entry.
C9_StoresReturnedValue ==
    \A p \in Procs :
        (pc[p] = "done" /\ outcome[p] = "ok" /\ args[p].cache_key # <<>>) =>
            /\ cacheWrites[p] = << <<KeyText(args[p]), ret[p], args[p].cache_ttl>> >>
            /\ cache[KeyText(args[p])] = <<[val |-> ret[p], ttl |-> args[p].cache_ttl]>>

\* A single-resource fetch with a cache key has returned a non-empty mapping.
C9_Witness ==
    \E p \in Procs :
        /\ pc[p] = "done" /\ outcome[p] = "ok"
        /\ args[p].cache_key # <<>> /\ args[p].resource_id # None
        /\ cacheGets[p] = 1
        /\ Truthy(ret[p])

\* C10: without a supplied client, a missing OAuth client record ends the call
\* as a token-build failure does: the empty value is returned, no endpoint
\* request is issued and nothing is written to the cache.
C10_MissingClientRecordIsInitFailure ==
    \A p \in Procs :
        (/\ pc[p] # "idle" /\ ~args[p].api
         /\ initLog[p].outcome \in {"no_client_record", "token_error"}) =>
            /\ pc[p] = "done"
            /\ outcome[p] = "init_failed"
            /\ ret[p] = Empty(p)
            /\ requests[p] = <<>>
            /\ cacheWrites[p] = <<>>

\* A call with a cache key missed the cache and found no client record.
C10_Witness ==
    \E p \in Procs :
        /\ pc[p] = "done" /\ ~args[p].api
        /\ initLog[p].outcome = "no_client_record"
        /\ cacheGets[p] = 1 /\ ~args[p].many
        /\ ret[p] = EmptyDict

\* The answers so far are all mappings whose `next` is a link.
AllLinked(log) == \A i \in 1..Len(log) : log[i].t = "dict" /\ log[i].next = "link"

\* C11: in a collection fetch, as long as every answer carries a non-null
\* `next` the pagination loop goes on: the call has not returned and has not
\* written the cache.
C11_EndlessNextNeverReturns ==
    \A p \in Procs :
        (/\ pc[p] # "idle" /\ args[p].resource_id = None
         /\ requests[p] # <<>>
         /\ AllLinked(responses[p])) =>
            /\ pc[p] = "paginate"
            /\ cacheWrites[p] = <<>>

\* C13: the resource id alone decides whether pagination is traversed.  With
\* a resource id exactly one request is issued and its answer is returned
\* unchanged, a non-null `next` and `many` notwithstanding; without one the
\* answer is read as a page (its `results`, or the empty value, and its
\* `next` followed), whatever `many` is.
C13_ResourceIdDecidesTraversal ==
    \A p \in Procs :
        /\ (pc[p] # "idle" /\ args[p].resource_id # None) =>
               /\ pc[p] # "paginate"
               /\ Len(requests[p]) <= 1
               /\ (pc[p] = "done" /\ outcome[p] = "ok") =>
                      Len(requests[p]) = 1 /\ ret[p] = responses[p][1]
        /\ (pc[p] = "done" /\ outcome[p] = "ok" /\ args[p].resource_id = None) =>
               /\ responses[p][Len(responses[p])].next # "link"
               /\ \A i \in 1..(Len(responses[p]) - 1) : responses[p][i].next = "link"
               /\ IF responses[p][1].results # <<>>
                  THEN /\ ret[p].t = "list"
                       /\ SubSeq(ret[p].items, 1, Len(responses[p][1].results[1]))
                             = responses[p][1].results[1]
                  ELSE Len(responses[p]) = 1 => ret[p] = Empty(p)

\* A single-resource fetch with many true has returned an answer that
\* carries `results` and a `next` link.
C13_Witness ==
    \E p \in Procs :
        /\ pc[p] = "done" /\ outcome[p] = "ok"
        /\ args[p].resource_id # None /\ args[p].many
        /\ ret[p].t = "dict" /\ ret[p].next = "link" /\ ret[p].results # <<>>

\* C14: a collection fetch whose requests all succeed returns after the
\* first answer without a `next` link: every earlier answer had one, and
\* there were as many requests as answers.
C14_StopsAtEndOfChain ==
    \A p \in Procs :
        (/\ pc[p] = "done" /\ args[p].resource_id = None
         /\ requests[p] # <<>>
         /\ \A i \in 1..Len(responses[p]) : responses[p][i].t = "dict") =>
            /\ Len(requests[p]) = Len(responses[p])
            /\ responses[p][Len(responses[p])].next # "link"
            /\ \A i \in 1..(Len(responses[p]) - 1) : responses[p][i].next = "link"

\* The call ended in failure: client initialization failed or the last
\* endpoint request raised.
CallFailed(p) ==
    \/ initLog[p].outcome \in InitFailures
    \/ responses[p] # <<>> /\ responses[p][Len(responses[p])].t = "raise"

\* C15: a call that ended in failure has written nothing to the cache, and
\* the entry under its key is what its own lookup found, so a later call
\* with the same key misses again.
C15_FailureWritesNothing ==
    \A p \in Procs :
        (pc[p] # "idle" /\ CallFailed(p)) =>
            /\ pc[p] = "done"
            /\ cacheWrites[p] = <<>>
            /\ args[p].cache_key # <<>> =>
                   /\ CacheValue(cache, KeyText(args[p])) = cached[p]
                   /\ cached[p] = <<>> \/ ~Truthy(cached[p][1])

\* A collection fetch with a cache key failed on its second request, after
\* a first page with items.
C15_Witness ==
    \E p \in Procs :
        /\ pc[p] = "done" /\ args[p].cache_key # <<>>
        /\ Len(responses[p]) = 2 /\ responses[p][2].t = "raise"
        /\ results[p].items # <<>>
        /\ cache[KeyText(args[p])] = <<>>

\* C16: credentials are looked up and a token is minted at most once per
\* call, and only when the configuration is enabled, the cache lookup (made
\* first, when a key is given) did not hit, and no client was supplied.
C16_InitOnlyWhenNeeded ==
    \A p \in Procs :
        /\ initLog[p].lookups <= 1 /\ initLog[p].tokens <= 1
        /\ initLog[p].lookups + initLog[p].tokens > 0 =>
               /\ args[p].enabled /\ ~args[p].api
               /\ outcome[p] # "hit"
               /\ args[p].cache_key # <<>> =>
                      /\ cacheGets[p] = 1
                      /\ cached[p] = <<>> \/ ~Truthy(cached[p][1])
        /\ (args[p].api \/ outcome[p] \in {"hit", "disabled"}) => initLog[p] = NoInit

\* A call with a cache key and no client missed the cache, looked up the
\* credentials, minted a token and fetched.
C16_Witness ==
    \E p \in Procs :
        /\ pc[p] = "done" /\ outcome[p] = "ok" /\ ~args[p].api
        /\ cacheGets[p] = 1
        /\ initLog[p].lookups = 1 /\ initLog[p].tokens = 1

\* C17 as stated: after a collection fetch that issued N > 1 requests the
\* caller's mapping has page = N; in every other case it is unchanged.
C17_CallerMappingGetsPage ==
    \A p \in Procs :
        (pc[p] # "idle" /\ ~args[p].querystring.isNone) =>
            callerQs[p] =
                IF Len(requests[p]) > 1
                THEN [args[p].querystring EXCEPT !.page = Len(requests[p])]
                ELSE args[p].querystring

\* C17 amended: the caller's mapping gets page = N only when it was
\* non-empty; an empty mapping (or None) is replaced by a fresh one and the
\* caller's object stays as it was.
C17_NonEmptyCallerMappingGetsPage ==
    \A p \in Procs :
        pc[p] # "idle" =>
            callerQs[p] =
                IF /\ Len(requests[p]) > 1
                   /\ ~args[p].querystring.isNone
                   /\ args[p].querystring.page # 0 \/ args[p].querystring.q # 0
                THEN [args[p].querystring EXCEPT !.page = Len(requests[p])]
                ELSE args[p].querystring

\* A two-request collection fetch has overwritten the caller's page = 5.
C17_Witness ==
    \E p \in Procs :
        /\ pc[p] = "done" /\ outcome[p] = "ok"
        /\ args[p].querystring.page = 5
        /\ Len(requests[p]) = 2
        /\ callerQs[p].page = 2

\* C12: two callers with the same derived key that both missed the cache
\* each issue their own requests; a caller's cache write replaces whatever
\* the entry held with that caller's whole result, so the entry ends as the
\* last writer's result, and the entry only ever changes to absent or to
\* the complete result of one call.
C12_LastWriterWins ==
    [][/\ \A p \in Procs :
             /\ pc[p] = "store" => requests[p] # <<>>
             /\ (pc[p] = "store" /\ pc'[p] = "done" /\ cache_key[p] # <<>>) =>
                    cache'[cache_key[p]] = <<[val |-> ret'[p], ttl |-> args[p].cache_ttl]>>
       /\ \A k \in StoreKeys :
             cache'[k] # cache[k] =>
                \/ cache'[k] = <<>>
                \/ \E p \in Procs :
                      /\ pc[p] = "store" /\ pc'[p] = "done" /\ cache_key[p] = k
                      /\ outcome'[p] = "ok"
                      /\ cache'[k][1].val = ret'[p]]_vars

\* Both callers missed the cache under the same key, fetched different
\* non-empty results and wrote them; the entry holds the second caller's.
C12_Witness ==
    /\ pc["c1"] = "done" /\ pc["c2"] = "done"
    /\ outcome["c1"] = "ok" /\ outcome["c2"] = "ok"
    /\ cache_key["c1"] = cache_key["c2"] /\ cache_key["c1"] # <<>>
    /\ requests["c1"] # <<>> /\ requests["c2"] # <<>>
    /\ Truthy(ret["c1"]) /\ Truthy(ret["c2"]) /\ ret["c1"] # ret["c2"]
    /\ cache[cache_key["c1"]] # <<>>
    /\ cache[cache_key["c1"]][1].val = ret["c2"]
====
